---------------------------- MODULE Spec2Model ----------------------------
(***************************************************************************)
(* Run Readiness Monitor (src/app.py): the record store (one spreadsheet   *)
(* of training-log rows), save_entry, load_data and analyze_condition.     *)
(*                                                                         *)
(* Numbers.  pandas computes in float64; the model computes the same       *)
(* quantities exactly.  A float is a rational [n |-> numerator,            *)
(* d |-> denominator] with d > 0, and NaN is the rational with d = 0.      *)
(* A standard deviation is kept as the rational under the square root      *)
(* (the sample variance); comparisons against it are done on squares.      *)
(* Dates are day numbers: pd.to_datetime of 'YYYY-MM-DD' orders rows by    *)
(* calendar day, and only that order is used by the program.               *)
(***************************************************************************)
EXTENDS Integers, Sequences, FiniteSets

VARIABLES
    sheet,      \* the spreadsheet's rows, in the order they were appended
    saved,      \* how many rows save_entry has appended in this behaviour
    returned,   \* TRUE when the last script run went through the button handler
    df,         \* load_data()'s frame handed to analyze_condition
    today_rhr,  \* analyze_condition's second argument
    score,      \* analyze_condition's results ...
    status,
    warnings,
    calc_df

vars == <<sheet, saved, returned, df, today_rhr, score, status, warnings, calc_df>>

-----------------------------------------------------------------------------
(* Program constants of analyze_condition *)

AcuteWindow == 7
ChronicWindow == 28
RhrWindow == 30
StartScore == 100
RhrSeverePenalty == 40
RhrElevatedPenalty == 20
AcwrHighPenalty == 30
AcwrRisePenalty == 10
AnaerobicPenalty == 10
RedBelow == 50
YellowBelow == 80

(* Bounds of the model *)

MaxBase == 34     \* longest history already in the sheet at start
MaxSaved == 1     \* rows appended by save_entry in one behaviour

-----------------------------------------------------------------------------
(* Input sets *)

BaseRhr == 45
BaseRpe == 5
BaseDistances == {0, 10}
RhrInputs == {45, 60}
DistanceInputs == {40}
RpeInputs == {5, 7, 10}
TypeInputs == {"Jog", "Anaerobic"}
TodayRhrInputs == {37, 49, 51}

Row(date, rhr, dist, rpe, type) ==
    [Date |-> date, RHR |-> rhr, Distance |-> dist, RPE |-> rpe, Type |-> type]

\* k rows on the consecutive days 1..k, as the form's defaults record them
BaseRowType(dist) == IF dist = 0 THEN "Rest" ELSE "Jog"
BaseSheet(k, dist) ==
    [i \in 1..k |-> Row(i, BaseRhr, dist, BaseRpe, BaseRowType(dist))]

-----------------------------------------------------------------------------
(* Floats as exact rationals *)

NaN == [n |-> 0, d |-> 0]
IsNaN(x) == x.d = 0
Rat(n, d) == [n |-> n, d |-> d]
\* x > c for a float x and an integer ratio cn/cd (cd > 0); NaN compares False
RatGreater(x, cn, cd) == ~IsNaN(x) /\ x.n * cd > cn * x.d

RECURSIVE Gcd(_, _)
Gcd(a, b) == IF b = 0 THEN a ELSE Gcd(b, a % b)

\* the running totals of xs: <<0, xs[1], xs[1]+xs[2], ...>>
RECURSIVE RunningSums(_, _)
RunningSums(xs, k) ==
    IF k = 0 THEN <<0>>
    ELSE LET p == RunningSums(xs, k - 1) IN Append(p, p[k] + xs[k])

\* xs[lo] + ... + xs[hi], from the running totals
WindowSum(sums, lo, hi) == sums[hi + 1] - sums[lo]

\* Series.rolling(w): the window ending at row i starts at row i-w+1, or at
\* the first row when there are fewer than w rows so far
RollingLowOffByOne(i, w) == IF i - w < 1 THEN 1 ELSE i - w
RollingLow(i, w) == IF i - w + 1 < 1 THEN 1 ELSE i - w + 1

\* Series.rolling(w): min_periods is not given and defaults to the window size
MinPeriodsOne(w) == 1
MinPeriods(w) == w

\* a rolling statistic is NaN unless its window holds min_periods rows
RollingDefined(i, w) == i - RollingLow(i, w) + 1 >= MinPeriods(w)

\* Series.rolling(w).mean()
RollingMean(xs, w) ==
    LET sums == RunningSums(xs, Len(xs))
        col == [i \in 1..Len(xs) |->
                 IF RollingDefined(i, w)
                 THEN Rat(WindowSum(sums, RollingLow(i, w), i), i - RollingLow(i, w) + 1)
                 ELSE NaN]
    IN SubSeq(col, 1, Len(xs))

\* Series.rolling(w).std(), ddof = 1: the rational is the sample variance
\* (n*sum(x^2) - sum(x)^2) / (n*(n-1)); with n = 1 it is NaN
RollingStd(xs, w) ==
    LET sums == RunningSums(xs, Len(xs))
        sqs == RunningSums([j \in 1..Len(xs) |-> xs[j] * xs[j]], Len(xs))
        col == [i \in 1..Len(xs) |->
                 IF RollingDefined(i, w)
                 THEN LET lo == RollingLow(i, w)
                          n == i - lo + 1
                          s == WindowSum(sums, lo, i)
                          q == WindowSum(sqs, lo, i)
                      IN Rat(n * q - s * s, n * (n - 1))
                 ELSE NaN]
    IN SubSeq(col, 1, Len(xs))

-----------------------------------------------------------------------------
(* 1. Data management *)

\* load_data: every record of the sheet, in sheet order (empty frame if none)
load_data == sheet

\* DataFrame.sort_values('Date'): ascending by date.  The default sort is not
\* stable, so rows sharing a date may come out in any relative order: every
\* ascending arrangement of the rows is a possible outcome.
\* how many leading rows of the ascending frame s have a date before d
\* (strict) or not after d (not strict), counted back from its end
RECURSIVE RowsBefore(_, _, _, _)
RowsBefore(s, d, strict, p) ==
    IF p = 0 THEN 0
    ELSE IF (IF strict THEN s[p].Date < d ELSE s[p].Date <= d) THEN p
    ELSE RowsBefore(s, d, strict, p - 1)

InsertByDate(s, x) ==
    LET lo == RowsBefore(s, x.Date, TRUE, Len(s))
        hi == RowsBefore(s, x.Date, FALSE, Len(s))
    IN { SubSeq(s, 1, p) \o <<x>> \o SubSeq(s, p + 1, Len(s)) : p \in lo..hi }

\* the frame left in sheet order
sort_values_skipped(frame) == { frame }

RECURSIVE SortPrefix(_, _)
SortPrefix(frame, k) ==
    IF k = 0 THEN { <<>> }
    ELSE UNION { InsertByDate(s, frame[k]) : s \in SortPrefix(frame, k - 1) }

sort_values(frame) == SortPrefix(frame, Len(frame))

-----------------------------------------------------------------------------
(* 2. analyze_condition *)

AcwrUnguarded(acute, chronic) ==
    IF IsNaN(acute) \/ IsNaN(chronic) THEN NaN
    ELSE Rat(acute.n * chronic.d, acute.d * chronic.n)

\* x['Acute']/x['Chronic'] if x['Chronic'] > 0 else 0
Acwr(acute, chronic) ==
    IF RatGreater(chronic, 0, 1)
    THEN IF IsNaN(acute) THEN NaN ELSE Rat(acute.n * chronic.d, acute.d * chronic.n)
    ELSE Rat(0, 1)

\* The derived columns of calc_df, for a frame already sorted by date
Annotate(sorted) ==
    LET n     == Len(sorted)
        load  == SubSeq([i \in 1..n |-> sorted[i].Distance * sorted[i].RPE], 1, n)
        rhr   == SubSeq([i \in 1..n |-> sorted[i].RHR], 1, n)
        acute == RollingMean(load, AcuteWindow)
        chron == RollingMean(load, ChronicWindow)
        mean  == RollingMean(rhr, RhrWindow)
        std   == RollingStd(rhr, RhrWindow)
        rows  == [i \in 1..n |->
          [Date |-> sorted[i].Date, RHR |-> sorted[i].RHR,
           Distance |-> sorted[i].Distance, RPE |-> sorted[i].RPE,
           Type |-> sorted[i].Type,
           Load |-> load[i], Acute |-> acute[i], Chronic |-> chron[i],
           ACWR |-> Acwr(acute[i], chron[i]),
           RHR_Mean |-> mean[i], RHR_Std |-> std[i]]]
    IN SubSeq(rows, 1, n)

\* not np.isnan(RHR_Std) and RHR_Std > 0
StdUsable(std) == ~IsNaN(std) /\ std.n > 0

\* (today - mean) / std > c, for an integer c >= 0 and std > 0:
\* today - mean > 0 and (today - mean)^2 > c^2 * variance.  With
\* diff = (today - mean) * mean.d that is
\* diff^2 * std.d > c^2 * mean.d^2 * std.n; the common factor g of std.d
\* and mean.d^2 is divided out of both sides.
ZScoreGreater(today, mean, std, c) ==
    LET diff == today * mean.d - mean.n
        g == Gcd(std.d, mean.d * mean.d)
    IN /\ diff > 0
       /\ diff * diff * (std.d \div g) > c * c * ((mean.d * mean.d) \div g) * std.n

\* f"{x:.2f}": x in hundredths, rounded to nearest, ties to even
Format2f(x) ==
    LET q == (100 * x.n) \div x.d
        r == (100 * x.n) % x.d
    IN IF 2 * r > x.d THEN q + 1
       ELSE IF 2 * r = x.d THEN q + (q % 2)
       ELSE q

Warning(kind, arg) == [kind |-> kind, arg |-> arg]

\* abs(z) > c: a two-sided test
ZScoreAbsGreater(today, mean, std, c) ==
    LET diff == today * mean.d - mean.n
        g == Gcd(std.d, mean.d * mean.d)
    IN /\ diff # 0
       /\ diff * diff * (std.d \div g) > c * c * ((mean.d * mean.d) \div g) * std.n

RhrRuleTwoSided(last_log, today) ==
    IF StdUsable(last_log.RHR_Std)
    THEN IF ZScoreAbsGreater(today, last_log.RHR_Mean, last_log.RHR_Std, 2)
         THEN <<RhrSeverePenalty, <<Warning("RHR_2SIGMA", today)>> >>
         ELSE IF ZScoreAbsGreater(today, last_log.RHR_Mean, last_log.RHR_Std, 1)
         THEN <<RhrElevatedPenalty, <<Warning("RHR_1SIGMA", today)>> >>
         ELSE <<0, <<>> >>
    ELSE <<0, <<>> >>

\* lines 104-111: the RHR rule, as <<penalty, warnings>>
RhrRule(last_log, today) ==
    IF StdUsable(last_log.RHR_Std)
    THEN IF ZScoreGreater(today, last_log.RHR_Mean, last_log.RHR_Std, 2)
         THEN <<RhrSeverePenalty, <<Warning("RHR_2SIGMA", today)>> >>
         ELSE IF ZScoreGreater(today, last_log.RHR_Mean, last_log.RHR_Std, 1)
         THEN <<RhrElevatedPenalty, <<Warning("RHR_1SIGMA", today)>> >>
         ELSE <<0, <<>> >>
    ELSE <<0, <<>> >>

\* lines 113-119: the load-ratio rule
AcwrRule(last_log) ==
    LET current_acwr == last_log.ACWR
    IN IF RatGreater(current_acwr, 3, 2)
       THEN <<AcwrHighPenalty, <<Warning("ACWR_HIGH", Format2f(current_acwr))>> >>
       ELSE IF RatGreater(current_acwr, 13, 10)
       THEN <<AcwrRisePenalty, <<Warning("ACWR_RISE", Format2f(current_acwr))>> >>
       ELSE <<0, <<>> >>

AnaerobicRuleBonus(last_log) ==
    IF last_log.Type = "Anaerobic"
    THEN <<0 - AnaerobicPenalty, <<Warning("CNS_RECOVERY", 0)>> >>
    ELSE <<0, <<>> >>

\* lines 121-123: the CNS-recovery rule
AnaerobicRule(last_log) ==
    IF last_log.Type = "Anaerobic"
    THEN <<AnaerobicPenalty, <<Warning("CNS_RECOVERY", 0)>> >>
    ELSE <<0, <<>> >>

StatusOfInclusive(s) ==
    IF s <= RedBelow THEN "RED"
    ELSE IF s <= YellowBelow THEN "YELLOW"
    ELSE "GREEN"

\* lines 125-127
StatusOf(s) ==
    IF s < RedBelow THEN "RED"
    ELSE IF s < YellowBelow THEN "YELLOW"
    ELSE "GREEN"

\* the rules' results combined: score and status from the penalties, the
\* warnings in the order the rules ran
Compose(annotated, r1, r2, r3) ==
    LET sc == StartScore - r1[1] - r2[1] - r3[1]
    IN [score |-> sc, status |-> StatusOf(sc),
        warnings |-> r1[2] \o r2[2] \o r3[2], calc_df |-> annotated]

JudgeLoadFirst(annotated, today) ==
    LET last_log == annotated[Len(annotated)]
    IN Compose(annotated, AcwrRule(last_log), RhrRule(last_log, today),
               AnaerobicRule(last_log))

\* lines 99-129, for the sorted and annotated frame
Judge(annotated, today) ==
    LET last_log == annotated[Len(annotated)]
        r1 == RhrRule(last_log, today)
        r2 == AcwrRule(last_log)
        r3 == AnaerobicRule(last_log)
    IN Compose(annotated, r1, r2, r3)

EmptyResultSilent(frame) ==
    [score |-> StartScore, status |-> "GREEN", warnings |-> <<>>, calc_df |-> frame]

\* line 79: the result for an empty frame
EmptyResult(frame) ==
    [score |-> StartScore, status |-> "GREEN",
     warnings |-> <<Warning("NO_DATA", 0)>>, calc_df |-> frame]

\* analyze_condition(frame, today): the set of results it can return
analyze_condition(frame, today) ==
    IF frame = <<>>
    THEN { EmptyResult(frame) }
    ELSE { Judge(Annotate(s), today) : s \in sort_values(frame) }

-----------------------------------------------------------------------------
(* 3. The script's runs *)

\* the histories the sheet starts with: none, or at least about four weeks
BaseLengths == {k \in 0..MaxBase : k = 0 \/ k >= ChronicWindow - 2}

Init ==
    /\ \E k \in BaseLengths : \E dist \in BaseDistances : sheet = BaseSheet(k, dist)
    /\ saved = 0
    /\ returned = FALSE
    /\ df = <<>>
    /\ today_rhr = 0
    /\ score = StartScore
    /\ status = "GREEN"
    /\ warnings = <<>>
    /\ calc_df = <<>>

NoResult ==
    /\ returned' = FALSE
    /\ df' = <<>>
    /\ today_rhr' = 0
    /\ score' = StartScore
    /\ status' = "GREEN"
    /\ warnings' = <<>>
    /\ calc_df' = <<>>

RECURSIVE FirstDateFrom(_, _)
FirstDateFrom(s, k) ==
    IF k = 1 THEN s[1].Date
    ELSE LET d == FirstDateFrom(s, k - 1) IN IF s[k].Date < d THEN s[k].Date ELSE d
RECURSIVE LastDateFrom(_, _)
LastDateFrom(s, k) ==
    IF k = 1 THEN s[1].Date
    ELSE LET d == LastDateFrom(s, k - 1) IN IF s[k].Date > d THEN s[k].Date ELSE d
\* the earliest and the latest day logged so far
FirstDate(s) == IF s = <<>> THEN 1 ELSE FirstDateFrom(s, Len(s))
LastDate(s) == IF s = <<>> THEN 0 ELSE LastDateFrom(s, Len(s))
\* the dates the form is submitted with: the day after the latest logged
\* day, or the day before the earliest one (a back-filled entry)
DateInputs(s) == {LastDate(s) + 1, FirstDate(s) - 1}

\* the log form's submit handler: save_entry appends one row; the run that
\* handles it does not enter the button handler
save_entry(date, rhr, dist, rpe, session_type) ==
    /\ saved < MaxSaved
    /\ sheet' = Append(sheet, Row(date, rhr, dist, rpe, session_type))
    /\ saved' = saved + 1
    /\ NoResult

\* the button handler: load_data, then analyze_condition
ButtonPressed(today) ==
    /\ ~returned
    /\ df' = load_data
    /\ today_rhr' = today
    /\ \E res \in analyze_condition(df', today) :
          /\ score' = res.score
          /\ status' = res.status
          /\ warnings' = res.warnings
          /\ calc_df' = res.calc_df
    /\ returned' = TRUE
    /\ UNCHANGED <<sheet, saved>>

\* any other interaction reruns the script with the button not pressed:
\* the previous run's results are gone
Rerun ==
    /\ returned
    /\ NoResult
    /\ UNCHANGED <<sheet, saved>>

Next ==
    \/ \E date \in DateInputs(sheet), rhr \in RhrInputs, dist \in DistanceInputs,
          rpe \in RpeInputs, session_type \in TypeInputs :
          save_entry(date, rhr, dist, rpe, session_type)
    \/ \E today \in TodayRhrInputs : ButtonPressed(today)
    \/ Rerun

Spec == Init /\ [][Next]_vars

-----------------------------------------------------------------------------
(* Vocabulary of the properties.  Everything below reads the raw columns    *)
(* of the frames and the returned values; none of it uses the operators of  *)
(* section 2 unless it says so.                                             *)

Analysed == returned /\ df # <<>>
N == Len(calc_df)
Last == calc_df[N]
HasWarning(kind) == \E i \in 1..Len(warnings) : warnings[i].kind = kind

\* f[lo] + f[lo+1] + ... + f[hi]
RECURSIVE SumOver(_, _, _)
SumOver(f, lo, hi) == IF lo > hi THEN 0 ELSE f[lo] + SumOver(f, lo + 1, hi)

LoadColumn == [i \in 1..N |-> calc_df[i].Distance * calc_df[i].RPE]
RhrColumn == [i \in 1..N |-> calc_df[i].RHR]

\* the first of the rows [max(first, i-w+1) .. i], and how many they are
WindowStart(i, w) == IF i > w THEN i - w + 1 ELSE 1
WindowSize(i, w) == i - WindowStart(i, w) + 1

\* x is the mean of col over the window of w rows ending at row i
MeanIs(x, col, i, w) ==
    ~IsNaN(x) /\ x.n * WindowSize(i, w) = x.d * SumOver(col, WindowStart(i, w), i)

\* x is the sample variance of col over that window (two-pass form):
\* sum((n*c - sum(c))^2) = n^2 * (n-1) * variance
VarianceIs(x, col, i, w) ==
    LET n == WindowSize(i, w)
        t == SumOver(col, WindowStart(i, w), i)
        q == SumOver([j \in 1..N |-> (n * col[j] - t) * (n * col[j] - t)],
                     WindowStart(i, w), i)
    IN ~IsNaN(x) /\ x.n * n * n * (n - 1) = x.d * q

\* what the score lost to each rule, read off the warnings
RhrDeducted ==
    IF HasWarning("RHR_2SIGMA") THEN 40 ELSE IF HasWarning("RHR_1SIGMA") THEN 20 ELSE 0
LoadDeducted ==
    IF HasWarning("ACWR_HIGH") THEN 30 ELSE IF HasWarning("ACWR_RISE") THEN 10 ELSE 0
CnsDeducted == IF HasWarning("CNS_RECOVERY") THEN 10 ELSE 0

\* today_rhr > M + c*S for the last row's baseline mean M and std S > 0.
\* The last row's window is the last 30 rows, M = m.n/30 and S^2 = v.n/870:
\* (30*today - m.n)^2 / 900 > c^2 * v.n / 870, i.e.
\* 29 * (30*today - m.n)^2 > 30 * c^2 * v.n
AboveSigmas(c) ==
    LET m == Last.RHR_Mean
        v == Last.RHR_Std
    IN /\ ~IsNaN(m) /\ ~IsNaN(v) /\ v.n > 0
       /\ m.d = 30 /\ v.d = 870
       /\ 30 * today_rhr > m.n
       /\ 29 * (30 * today_rhr - m.n) * (30 * today_rhr - m.n) > 30 * c * c * v.n

\* today_rhr <= M - c*S
BelowSigmas(c) ==
    LET m == Last.RHR_Mean
        v == Last.RHR_Std
    IN /\ ~IsNaN(m) /\ ~IsNaN(v) /\ v.n > 0
       /\ m.d = 30 /\ v.d = 870
       /\ 30 * today_rhr <= m.n
       /\ 29 * (m.n - 30 * today_rhr) * (m.n - 30 * today_rhr) >= 30 * c * c * v.n

-----------------------------------------------------------------------------
(* C1 *)

\* C1 as stated: every rolling statistic at row i is computed over the rows
\* [max(0, i-w+1) .. i]; a partial window still has a mean, and the standard
\* deviation is defined as soon as the window holds 2 rows.
C1_PartialWindows ==
    Analysed =>
      \A i \in 1..N :
        /\ MeanIs(calc_df[i].Acute, LoadColumn, i, 7)
        /\ MeanIs(calc_df[i].Chronic, LoadColumn, i, 28)
        /\ MeanIs(calc_df[i].RHR_Mean, RhrColumn, i, 30)
        /\ IF WindowSize(i, 30) >= 2
           THEN VarianceIs(calc_df[i].RHR_Std, RhrColumn, i, 30)
           ELSE IsNaN(calc_df[i].RHR_Std)

\* C1 amended: a rolling statistic at row i is the statistic of the rows
\* [i-w+1 .. i] when all w of them exist, and is missing (NaN) for the first
\* w-1 rows: 6 rows without an acute mean, 27 without a chronic mean, 29
\* without an RHR baseline mean or standard deviation.
C1_FullWindows ==
    Analysed =>
      \A i \in 1..N :
        /\ IF i >= 7 THEN MeanIs(calc_df[i].Acute, LoadColumn, i, 7)
           ELSE IsNaN(calc_df[i].Acute)
        /\ IF i >= 28 THEN MeanIs(calc_df[i].Chronic, LoadColumn, i, 28)
           ELSE IsNaN(calc_df[i].Chronic)
        /\ IF i >= 30
           THEN /\ MeanIs(calc_df[i].RHR_Mean, RhrColumn, i, 30)
                /\ VarianceIs(calc_df[i].RHR_Std, RhrColumn, i, 30)
           ELSE IsNaN(calc_df[i].RHR_Mean) /\ IsNaN(calc_df[i].RHR_Std)

\* a frame with partial and full windows of all three sizes, and a baseline
\* that varies
C1_Witness ==
    /\ Analysed
    /\ N > 30
    /\ Last.RHR_Std.d # 0 /\ Last.RHR_Std.n > 0
    /\ Last.Chronic.d # 0 /\ Last.Chronic.n > 0

-----------------------------------------------------------------------------
(* C2 *)

\* C2: for an empty log and any todayRhr the result is score 100, GREEN, one
\* informational warning and the empty log itself; no rule's warning appears.
C2_EmptyLog ==
    (returned /\ df = <<>>) =>
      /\ score = 100
      /\ status = "GREEN"
      /\ Len(warnings) = 1
      /\ warnings[1].kind = "NO_DATA"
      /\ calc_df = df

C2_Witness == returned /\ df = <<>> /\ sheet = <<>> /\ today_rhr = 51

-----------------------------------------------------------------------------
(* C3 *)

\* C3: the RHR rule is one-sided and fires at most once: with the last
\* row's baseline mean M and standard deviation S, defined and > 0, it
\* deducts 40 iff todayRhr > M + 2S, 20 iff M + S < todayRhr <= M + 2S, and
\* nothing otherwise (nothing at all when S is missing or 0).
C3_RhrRule ==
    Analysed =>
      /\ HasWarning("RHR_2SIGMA") <=> AboveSigmas(2)
      /\ HasWarning("RHR_1SIGMA") <=> (AboveSigmas(1) /\ ~AboveSigmas(2))
      /\ StartScore - score - LoadDeducted - CnsDeducted
            = IF AboveSigmas(2) THEN 40 ELSE IF AboveSigmas(1) THEN 20 ELSE 0
      /\ Cardinality({i \in 1..Len(warnings) :
                        warnings[i].kind \in {"RHR_2SIGMA", "RHR_1SIGMA"}}) <= 1
      /\ \A i \in 1..Len(warnings) :
            warnings[i].kind \in {"RHR_2SIGMA", "RHR_1SIGMA"}
               => warnings[i].arg = today_rhr

\* todayRhr at least 3 standard deviations below a varying baseline
C3_Witness == Analysed /\ BelowSigmas(3) /\ RhrDeducted = 0

-----------------------------------------------------------------------------
(* C4 *)

\* C4: in every row of a non-empty log ACWR is exactly 0 when the chronic
\* mean is 0 or missing (so in every row of a log of fewer than 2 rows or of
\* all-zero loads), and the load-ratio rule then deducts nothing.
C4_AcwrGuard ==
    Analysed =>
      /\ \A i \in 1..N :
            (IsNaN(calc_df[i].Chronic) \/ calc_df[i].Chronic.n = 0)
               => (calc_df[i].ACWR.d # 0 /\ calc_df[i].ACWR.n = 0)
      /\ (N < 2 \/ \A i \in 1..N : LoadColumn[i] = 0)
            => \A i \in 1..N : calc_df[i].ACWR.d # 0 /\ calc_df[i].ACWR.n = 0
      /\ (IsNaN(Last.Chronic) \/ Last.Chronic.n = 0)
            => /\ ~HasWarning("ACWR_HIGH") /\ ~HasWarning("ACWR_RISE")
               /\ StartScore - score - RhrDeducted - CnsDeducted = 0

\* a chronic mean that is defined and exactly 0: four weeks of rest days
C4_Witness ==
    /\ Analysed
    /\ N >= 28
    /\ Last.Chronic.d # 0 /\ Last.Chronic.n = 0
    /\ Last.Acute.d # 0

-----------------------------------------------------------------------------
(* C5 *)

\* C5: the status is decided by the final score alone: RED iff score < 50,
\* YELLOW iff 50 <= score < 80, GREEN iff score >= 80, and nothing else;
\* the status derivation (StatusOf) maps 49 to RED, 50 and 79 to YELLOW and
\* 80 to GREEN.
C5_StatusBands ==
    returned =>
      /\ status \in {"RED", "YELLOW", "GREEN"}
      /\ status = "RED" <=> score < 50
      /\ status = "YELLOW" <=> (50 <= score /\ score < 80)
      /\ status = "GREEN" <=> score >= 80
      /\ StatusOf(49) = "RED" /\ StatusOf(50) = "YELLOW"
      /\ StatusOf(79) = "YELLOW" /\ StatusOf(80) = "GREEN"

\* a score on a band's lower edge
C5_Witness == Analysed /\ score = 50 /\ status = "YELLOW"

-----------------------------------------------------------------------------
(* C6 *)

RuleOf(kind) ==
    CASE kind \in {"RHR_2SIGMA", "RHR_1SIGMA"} -> 1
      [] kind \in {"ACWR_HIGH", "ACWR_RISE"} -> 2
      [] kind = "CNS_RECOVERY" -> 3
      [] OTHER -> 0

PenaltyOf(kind) ==
    CASE kind = "RHR_2SIGMA" -> 40
      [] kind = "RHR_1SIGMA" -> 20
      [] kind = "ACWR_HIGH" -> 30
      [] kind = "ACWR_RISE" -> 10
      [] kind = "CNS_RECOVERY" -> 10
      [] OTHER -> 0

\* C6: for a non-empty log the warnings are those of the rules that fired,
\* one each, in the order RHR, load ratio, Anaerobic, and the score is 100
\* minus the penalties of exactly those warnings.
C6_RuleOrder ==
    Analysed =>
      /\ Len(warnings) <= 3
      /\ \A i \in 1..Len(warnings) : RuleOf(warnings[i].kind) # 0
      /\ \A i, j \in 1..Len(warnings) :
            i < j => RuleOf(warnings[i].kind) < RuleOf(warnings[j].kind)
      /\ score = 100 - SumOver([i \in 1..Len(warnings) |-> PenaltyOf(warnings[i].kind)],
                               1, Len(warnings))
      /\ HasWarning("CNS_RECOVERY") <=> Last.Type = "Anaerobic"
      /\ HasWarning("ACWR_HIGH") <=> RatGreater(Last.ACWR, 3, 2)
      /\ HasWarning("ACWR_RISE") <=>
            (RatGreater(Last.ACWR, 13, 10) /\ ~RatGreater(Last.ACWR, 3, 2))
      /\ (HasWarning("RHR_2SIGMA") \/ HasWarning("RHR_1SIGMA")) <=> AboveSigmas(1)

\* all three rules fired
C6_Witness ==
    /\ Analysed
    /\ Len(warnings) = 3
    /\ warnings[1].kind = "RHR_1SIGMA"
    /\ warnings[2].kind = "ACWR_RISE"
    /\ warnings[3].kind = "CNS_RECOVERY"

-----------------------------------------------------------------------------
(* C7 *)

DistinctDates(frame) ==
    Cardinality({frame[i].Date : i \in 1..Len(frame)}) = Len(frame)

Reverse(frame) ==
    SubSeq([i \in 1..Len(frame) |-> frame[Len(frame) + 1 - i]], 1, Len(frame))
SwapEnds(frame) ==
    [frame EXCEPT ![1] = frame[Len(frame)], ![Len(frame)] = frame[1]]

RawRow(r) == Row(r.Date, r.RHR, r.Distance, r.RPE, r.Type)

\* C7: with pairwise distinct dates the result does not depend on the order
\* of the rows handed in (checked for the frame reversed and for the frame
\* with its ends swapped, against analyze_condition's result for each),
\* the annotated frame is the input in ascending date order, and the rules
\* read the row with the latest date.
C7_OrderIndependent ==
    (Analysed /\ DistinctDates(df)) =>
      /\ \A p \in {Reverse(df), SwapEnds(df)} :
           \A r \in analyze_condition(p, today_rhr) :
              r.score = score /\ r.status = status /\ r.warnings = warnings
      /\ N = Len(df)
      /\ \A i \in 1..(N - 1) : calc_df[i].Date < calc_df[i + 1].Date
      /\ {RawRow(calc_df[i]) : i \in 1..N} = {df[i] : i \in 1..N}
      /\ \A i \in 1..N : df[i].Date <= Last.Date
      /\ HasWarning("CNS_RECOVERY") <=>
            \E i \in 1..N : /\ df[i].Type = "Anaerobic"
                            /\ \A j \in 1..N : df[j].Date <= df[i].Date

\* the row appended last is an Anaerobic session dated before the others,
\* and the latest session is not Anaerobic
C7_Witness ==
    /\ Analysed
    /\ DistinctDates(df)
    /\ Len(df) > 30
    /\ df[Len(df)].Type = "Anaerobic"
    /\ df[Len(df)].Date < df[1].Date
    /\ Last.Type # "Anaerobic"

-----------------------------------------------------------------------------
(* C8 *)

\* 34 consecutive days of distance 10, rpe 5, rhr 45, then a 35th day with
\* distance 40, rpe 5, rhr 45
IsScenario2(frame) ==
    /\ Len(frame) = 35
    /\ \A i \in 1..34 : frame[i] = Row(i, 45, 10, 5, "Jog")
    /\ \E t \in TypeInputs : frame[35] = Row(35, 45, 40, 5, t)

\* C8 as stated: in scenario 2 the last row's ACWR is > 1.5, the load-ratio
\* rule deducts 30 and the 'high injury risk' warning carries the ACWR to 2
\* decimals.
C8_Scenario2High ==
    (returned /\ IsScenario2(df)) =>
      /\ RatGreater(Last.ACWR, 3, 2)
      /\ LoadDeducted = 30
      /\ \E i \in 1..Len(warnings) : warnings[i].kind = "ACWR_HIGH"

\* C8 amended: in scenario 2 the acute mean is 500/7 and the chronic mean
\* 1550/28, so the last row's ACWR is 40/31 (1.29 to 2 decimals), which is
\* not above 1.3: the load-ratio rule deducts nothing and emits no warning;
\* the score is 100, or 90 when the last session is Anaerobic.
C8_Scenario2Actual ==
    (returned /\ IsScenario2(df)) =>
      /\ Last.ACWR.d # 0 /\ Last.ACWR.n * 31 = 40 * Last.ACWR.d
      /\ (100 * 40) \div 31 = 129
      /\ ~HasWarning("ACWR_HIGH") /\ ~HasWarning("ACWR_RISE")
      /\ ~HasWarning("RHR_2SIGMA") /\ ~HasWarning("RHR_1SIGMA")
      /\ score = IF df[35].Type = "Anaerobic" THEN 90 ELSE 100
      /\ status = "GREEN"

C8_Witness == returned /\ IsScenario2(df) /\ df[35].Type = "Jog" /\ today_rhr = 49

-----------------------------------------------------------------------------
(* C9 *)

\* the ratios a raised ACWR is tried at, around both thresholds
RaisedAcwr == {Rat(13, 10), Rat(131, 100), Rat(3, 2), Rat(151, 100), Rat(2, 1)}
\* the widget's range for today's RHR (line 154)
TodayRhrRange == 30..100

\* C9: with the log fixed the score never rises as todayRhr rises; with
\* todayRhr fixed it never rises when the last session's type becomes
\* Anaerobic or when only the last row's ACWR is raised.  (Judge is
\* analyze_condition's scoring of an annotated frame.)
C9_Monotone ==
    Analysed =>
      /\ \A b \in TodayRhrRange :
            /\ b >= today_rhr => Judge(calc_df, b).score <= score
            /\ b <= today_rhr => Judge(calc_df, b).score >= score
      /\ Judge([calc_df EXCEPT ![N].Type = "Anaerobic"], today_rhr).score <= score
      /\ \A x \in RaisedAcwr :
            (x.n * Last.ACWR.d >= Last.ACWR.n * x.d)
               => Judge([calc_df EXCEPT ![N].ACWR = x], today_rhr).score <= score

\* a result in the middle RHR tier, with the other two rules silent
C9_Witness ==
    /\ Analysed
    /\ warnings = <<Warning("RHR_1SIGMA", today_rhr)>>
    /\ score = 80

-----------------------------------------------------------------------------
(* C10 *)

WorstCase ==
    /\ Analysed
    /\ HasWarning("RHR_2SIGMA")
    /\ HasWarning("ACWR_HIGH")
    /\ HasWarning("CNS_RECOVERY")

\* C10 as stated: penalties are unbounded below, so some returned score is
\* negative.  The score is smallest when every rule fires with its larger
\* penalty, so the claim says the score returned there is negative.
C10_NegativeScore == WorstCase => score < 0

\* C10 amended: the score starts at 100 and is only decremented, by at most
\* 40 + 30 + 10, each rule firing once: no floor is applied, and the
\* returned score is never below 20, so never negative.
C10_ScoreRange == returned => (score <= 100 /\ score >= 20)

C10_Witness == WorstCase /\ score = 20 /\ status = "RED"

=============================================================================
